---- MODULE Spec2Model ----
(***************************************************************************)
(* Pyllas: the Athena client (pyllas/client.py), the S3 result reader      *)
(* (pyllas/storage/s3.py), the path value types (pyllas/storage/paths.py)  *)
(* and the progress bar (pyllas/utils/progress_bar.py).                    *)
(*                                                                         *)
(* Python strings are modelled as sequences of one-character strings, so   *)
(* that slash normalisation, joining and the S3 location pattern are       *)
(* computed the way the code computes them.                                *)
(***************************************************************************)
EXTENDS Integers, Sequences, FiniteSets, TLC

(***************************************************************************)
(* Bounds of the model.                                                    *)
(***************************************************************************)
\* Most non-terminal states (QUEUED, RUNNING) the service reports per execution.
MaxPending == 2
\* Most result objects one CREATE TABLE execution writes.
MaxObjects == 2
\* Largest explicit n_jobs tried (n_jobs ranges over 1..MaxJobs and -1).
MaxJobs == 2
\* Most sampling ticks of the worker-pool wait loop that are recorded.
MaxPoolTicks == 1

None == "None"

(***************************************************************************)
(* Strings.                                                                *)
(***************************************************************************)
SLASH == "/"

\* str.removesuffix('/')
RemoveSuffix(s, c) ==
    IF Len(s) > 0 /\ s[Len(s)] = c THEN SubSeq(s, 1, Len(s) - 1) ELSE s

\* str.removeprefix('/')
RemovePrefix(s, c) ==
    IF Len(s) > 0 /\ s[1] = c THEN SubSeq(s, 2, Len(s)) ELSE s

RECURSIVE LStrip(_, _)
LStrip(s, c) ==
    IF Len(s) > 0 /\ s[1] = c THEN LStrip(Tail(s), c) ELSE s

RECURSIVE RStrip(_, _)
RStrip(s, c) ==
    IF Len(s) > 0 /\ s[Len(s)] = c THEN RStrip(SubSeq(s, 1, Len(s) - 1), c) ELSE s

\* str.strip('/')
Strip(s, c) == RStrip(LStrip(s, c), c)

\* sep.join(parts)
RECURSIVE Join(_, _)
Join(parts, sep) ==
    IF parts = <<>> THEN <<>>
    ELSE IF Len(parts) = 1 THEN parts[1]
    ELSE parts[1] \o <<sep>> \o Join(Tail(parts), sep)

\* str.replace(old, new) for one-character old and new
RECURSIVE Replace(_, _, _)
Replace(s, old, new) ==
    IF s = <<>> THEN <<>>
    ELSE <<IF s[1] = old THEN new ELSE s[1]>> \o Replace(Tail(s), old, new)

\* str.startswith(p)
StartsWith(s, p) == Len(p) <= Len(s) /\ SubSeq(s, 1, Len(p)) = p

(***************************************************************************)
(* pyllas.storage.paths.Path: a list of string parts.                      *)
(***************************************************************************)
\* Path.__init__(path): parts = [path] unless path is empty
PathInit(path) == IF path = <<>> THEN <<>> ELSE <<path>>

\* Path.resolve(prefix) with a string prefix: parts + [prefix]
PathResolve(parts, prefix) == Append(parts, prefix)

\* Path.as_str: with more than one part, the first part loses ONE trailing
\* slash, the last part ONE leading slash, the middle parts are stripped of
\* all slashes and dropped when empty; the parts are joined by '/'.
AsStr(parts) ==
    IF Len(parts) > 1
    THEN LET first  == RemoveSuffix(parts[1], SLASH)
             last   == RemovePrefix(parts[Len(parts)], SLASH)
             middle == [i \in 1..(Len(parts) - 2) |-> Strip(parts[i + 1], SLASH)]
             kept   == SelectSeq(middle, LAMBDA part : Len(part) > 0)
         IN  Join(<<first>> \o kept \o <<last>>, SLASH)
    ELSE Join(parts, SLASH)

\* pyllas.storage.paths.S3Path.  EXTRACT_PATTERN, applied by re.search, is:
\* the scheme s3 or s3a, then ://, then the group bucket (the longest run of
\* lower-case letters, digits, dots and dashes), then an optional slash, then
\* the group prefix (everything that is left).
BucketChars ==
    {"a","b","c","d","e","f","g","h","i","j","k","l","m","n","o","p","q","r",
     "s","t","u","v","w","x","y","z","0","1","2","3","4","5","6","7","8","9",
     ".","-"}

SchemeS3  == <<"s","3",":","/","/">>
SchemeS3A == <<"s","3","a",":","/","/">>

\* length of the scheme matched at position i of s, 0 when none matches
SchemeAt(s, i) ==
    LET rest == SubSeq(s, i, Len(s))
    IN  IF StartsWith(rest, SchemeS3) THEN Len(SchemeS3)
        ELSE IF StartsWith(rest, SchemeS3A) THEN Len(SchemeS3A)
        ELSE 0

\* the greedy run [a-z\d.-]* at the head of s
RECURSIVE BucketRun(_)
BucketRun(s) ==
    IF Len(s) > 0 /\ s[1] \in BucketChars THEN <<s[1]>> \o BucketRun(Tail(s)) ELSE <<>>

\* re.search(EXTRACT_PATTERN, path): leftmost match; matched = FALSE when none
ExtractPattern(path) ==
    LET starts == {i \in 1..Len(path) : SchemeAt(path, i) > 0}
    IN  IF starts = {} THEN [matched |-> FALSE, bucket |-> <<>>, prefix |-> <<>>]
        ELSE LET i      == CHOOSE k \in starts : \A m \in starts : k <= m
                 after  == SubSeq(path, i + SchemeAt(path, i), Len(path))
                 bucket == BucketRun(after)
                 rest   == SubSeq(after, Len(bucket) + 1, Len(after))
             IN  [matched |-> TRUE, bucket |-> bucket,
                  prefix |-> RemovePrefix(rest, SLASH)]

\* S3Path.__init__(path); valid = FALSE stands for the ValueError it raises
S3PathInit(path) ==
    LET result == ExtractPattern(path)
    IN  [valid  |-> result.matched,
         path   |-> PathInit(path),
         bucket |-> result.bucket,
         prefix |-> result.prefix]

\* S3Path.as_str / __str__
S3AsStr(p) == AsStr(p.path)

\* S3Path.resolve / __truediv__: S3Path(str(self.path.resolve(prefix)))
S3Resolve(p, prefix) == S3PathInit(AsStr(PathResolve(p.path, prefix)))

(***************************************************************************)
(* pyllas.sql: infuse and Expr.                                            *)
(* A parameter value is a record tagged with its Python type; params (a    *)
(* dict, iterated in insertion order) is a sequence of key / value pairs,  *)
(* and the empty sequence stands for None and for {}.                      *)
(***************************************************************************)
StrValue(s)      == [type |-> "str", value |-> s]
IntValue(n)      == [type |-> "int", value |-> n]
ListValue(items) == [type |-> "list", items |-> items]
\* Expr(content)
ExprValue(s)     == [type |-> "Expr", content |-> s]

Digits == <<"0", "1", "2", "3", "4", "5", "6", "7", "8", "9">>

\* str(n) of an int
RECURSIVE IntToStr(_)
IntToStr(n) ==
    IF n < 0 THEN <<"-">> \o IntToStr(0 - n)
    ELSE IF n < 10 THEN <<Digits[n + 1]>>
    ELSE IntToStr(n \div 10) \o <<Digits[(n % 10) + 1]>>

\* str(value): a str is itself, Expr.__str__ returns its content
Str(v) ==
    CASE v.type = "str"  -> v.value
      [] v.type = "int"  -> IntToStr(v.value)
      [] v.type = "Expr" -> v.content

\* f"'{val}'"
Quoted(s) == <<"'">> \o s \o <<"'">>

\* the text put in place of a key: the branches on type(value) of infuse,
\* followed by the str(replace_value) of the replace call
ReplaceValue(v) ==
    IF v.type = "list"
    THEN Join([i \in 1..Len(v.items) |-> Quoted(Str(v.items[i]))], ",")
    ELSE IF v.type = "str"
    THEN Quoted(v.value)
    ELSE Str(v)

\* '${%s}' % key
Token(key) == <<"$", "{">> \o key \o <<"}">>

\* str.replace(old, new) for a non-empty old: the occurrences are found from
\* the left and do not overlap; the text put in is not searched again
RECURSIVE StrReplace(_, _, _)
StrReplace(s, old, new) ==
    IF s = <<>> THEN <<>>
    ELSE IF StartsWith(s, old)
    THEN new \o StrReplace(SubSeq(s, Len(old) + 1, Len(s)), old, new)
    ELSE <<s[1]>> \o StrReplace(Tail(s), old, new)

\* the for loop of infuse: one replace per key over the result so far
RECURSIVE InfuseLoop(_, _)
InfuseLoop(result, params) ==
    IF params = <<>> THEN result
    ELSE InfuseLoop(StrReplace(result, Token(params[1].key),
                               ReplaceValue(params[1].value)),
                    Tail(params))

\* infuse(string, params)
Infuse(string, params) ==
    IF params = <<>> THEN string ELSE InfuseLoop(string, params)

(***************************************************************************)
(* Values of the remote query service and of the object store.             *)
(***************************************************************************)
PendingStates  == {"QUEUED", "RUNNING"}
TerminalStates == {"SUCCEEDED", "FAILED", "CANCELLED"}
\* StateChangeReason strings the service may give for FAILED and CANCELLED
Reasons == {"r1", "r2"}
\* the value start_query_execution yields no id with (the request was rejected)
NoId == 0

\* What an ORC object may hold: a table fragment (here the i-th object of a
\* result set holds the one row i), or bytes that orc.ORCFile cannot read.
Fragment(i, ok) == [ok |-> ok, schema |-> "s", rows |-> IF ok THEN <<i>> ELSE <<>>]
BadFragment == Fragment(0, FALSE)

RECURSIVE SeqsUpTo(_, _)
SeqsUpTo(S, n) ==
    IF n = 0 THEN {<<>>}
    ELSE LET shorter == SeqsUpTo(S, n - 1)
         IN  shorter \cup {Append(q, x) : q \in {r \in shorter : Len(r) = n - 1}, x \in S}

\* the result sets (fragments in key order) a CREATE TABLE execution may
\* write: up to MaxObjects objects, each readable or not
ResultSets ==
    {[i \in 1..Len(oks) |-> Fragment(i, oks[i])] : oks \in SeqsUpTo(BOOLEAN, MaxObjects)}

\* characters in ASCII order, for the key order of an S3 listing
Alphabet == <<"-", ".", "/", "0", "1", "2", "3", "4", "5", "6", "7", "8", "9",
              ":", "_", "a", "b", "c", "d", "e", "f", "g", "h", "i", "j", "k",
              "l", "m", "n", "o", "p", "q", "r", "s", "t", "u", "v", "w", "x",
              "y", "z">>
Ord(c) == CHOOSE i \in 1..Len(Alphabet) : Alphabet[i] = c

RECURSIVE KeyLess(_, _)
KeyLess(a, b) ==
    IF b = <<>> THEN FALSE
    ELSE IF a = <<>> THEN TRUE
    ELSE IF a[1] = b[1] THEN KeyLess(Tail(a), Tail(b))
    ELSE Ord(a[1]) < Ord(b[1])

\* the bucket's objects after obj is put, kept in key order
RECURSIVE PutObject(_, _)
PutObject(objs, obj) ==
    IF objs = <<>> THEN <<obj>>
    ELSE IF objs[1].key = obj.key THEN <<obj>> \o Tail(objs)
    ELSE IF KeyLess(obj.key, objs[1].key) THEN <<obj>> \o objs
    ELSE <<objs[1]>> \o PutObject(Tail(objs), obj)

\* the file names of the objects an execution writes under its location
PartNames == <<<<"0">>, <<"1">>, <<"2">>, <<"3">>>>

\* the bucket after a CREATE TABLE execution has written result set rs under
\* external_location (given as a parsed location)
RECURSIVE WriteResults(_, _, _, _)
WriteResults(objs, loc, rs, i) ==
    IF i > Len(rs) THEN objs
    ELSE WriteResults(
             PutObject(objs, [bucket |-> loc.bucket,
                              key    |-> loc.prefix \o <<SLASH>> \o PartNames[i],
                              frag   |-> rs[i]]),
             loc, rs, i + 1)

(***************************************************************************)
(* Inputs.                                                                 *)
(***************************************************************************)
Workgroups == {<<"w">>}
OutputLocations == {<<"s","3",":","/","/","b","/","x">>,
                    <<"s","3",":","/","/","b","/","x","/">>}
TableNames == {<<"t">>}
\* name = None (like the empty string, it is false in `name or ...`)
NoName == <<>>
\* values of uuid.uuid4() (shortened)
Uuids == {<<"a","-","1">>}
\* create_table's default prefix 'tmp_'
DefaultPrefix == <<"t","m","p","_">>
QueryText == <<"q">>
NJobs == (1..MaxJobs) \cup {-1}
\* os.cpu_count() on the host
CpuCount == 1

\* objects already in the bucket: residue at the location of table w.t and
\* an object of the table w.t2
ResidualObject  == [bucket |-> <<"b">>, key |-> <<"x","/","w",".","t","/","o">>,
                    frag |-> Fragment(8, TRUE)]
NeighbourObject == [bucket |-> <<"b">>, key |-> <<"x","/","w",".","t","2","/","0">>,
                    frag |-> Fragment(9, TRUE)]
\* query always writes to a location of its own (a new uuid)
InitialStores(c) ==
    IF c.op = "query" THEN {<<>>}
    ELSE {<<>>, <<ResidualObject>>, <<ResidualObject, NeighbourObject>>}

\* the public calls: query(...) and create_table(name, overwrite)
Calls ==
    {[op |-> "query", name |-> NoName, overwrite |-> FALSE]}
    \cup {[op |-> "create_table", name |-> n, overwrite |-> o] :
              n \in TableNames \cup {NoName}, o \in BOOLEAN}

(***************************************************************************)
(* State.                                                                  *)
(***************************************************************************)
VARIABLES
    self,         \* the Athena object: workgroup, s3_output_location, n_jobs
    call,         \* the public call being executed
    pc,           \* position of the calling thread
    outcome,      \* how the call ended: return, raise or exit
    query_name,   \* create_table / query: local query_name
    query_path,   \* create_table / query: local query_path (an S3Path)
    query_id,     \* __wait_query_complete: the execution awaited
    response,     \* __wait_query_complete: the last response
    reports,      \* the (id, report) pairs __wait_query_complete has returned
    interrupted,  \* a KeyboardInterrupt has been delivered
    execs,        \* the service: per execution its statement and the states served
    store,        \* the bucket: objects in key order
    trace,        \* requests sent to the service and the store, sleeps and ticks
    bars,         \* the ProgressBar objects created, in order
    fetch         \* read_orc: listing, position, decoded tables, pool state

vars == <<self, call, pc, outcome, query_name, query_path, query_id, response,
          reports, interrupted, execs, store, trace, bars, fetch>>

NoResponse == [State |-> None, StateChangeReason |-> None, seq |-> 0]
NoPath     == [valid |-> FALSE, path |-> <<>>, bucket |-> <<>>, prefix |-> <<>>]
NoFetch    == [mode |-> None, threads |-> 0, paths |-> <<>>, idx |-> 0,
               tables |-> <<>>, pending |-> <<>>, running |-> {},
               results |-> <<>>, failed |-> <<>>, ticks |-> 0]

Running == [kind |-> "running"]

Init ==
    /\ self \in {[workgroup |-> w, s3_output_location |-> S3PathInit(l), n_jobs |-> n] :
                    w \in Workgroups, l \in OutputLocations, n \in NJobs}
    /\ call \in Calls
    /\ pc = "start"
    /\ outcome = Running
    /\ query_name = <<>>
    /\ query_path = NoPath
    /\ query_id = NoId
    /\ response = NoResponse
    /\ reports = <<>>
    /\ interrupted = FALSE
    /\ execs = <<>>
    /\ store \in InitialStores(call)
    /\ trace = <<>>
    /\ bars = <<>>
    /\ fetch = NoFetch

(***************************************************************************)
(* ProgressBar.                                                            *)
(***************************************************************************)
\* ProgressBar(): progress = '' (its length is kept), nothing written yet
NewBar(scope) == [scope |-> scope, progress |-> 0, final |-> <<>>]

\* ProgressBar.tick on the innermost bar
BarTick(bs) == [bs EXCEPT ![Len(bs)].progress = @ + 1]

\* BarExit writing complete whatever the traceback
BarExitAlwaysComplete(bs, traceback) ==
    [bs EXCEPT ![Len(bs)].final = Append(@, "complete")]

\* ProgressBar.__exit__(type, value, traceback) on the innermost bar: writes
\* complete when there is no traceback and error otherwise
BarExit(bs, traceback) ==
    [bs EXCEPT ![Len(bs)].final = Append(@, IF traceback THEN "error" ELSE "complete")]

(***************************************************************************)
(* Errors and outcomes.                                                    *)
(***************************************************************************)
\* the error codes with which the service may reject a request
ServiceErrors == {"ThrottlingException", "InternalServerException"}

\* an error of the service client (botocore) raised by the named request
\* with the error code of the service
ClientError(request, code) == [type |-> "ClientError", msg |-> <<request, code>>]

\* QueryCancelled with the text of the FAILED branch
QueryCancelledAsFailed(status) ==
    [type |-> "ValueError",
     msg  |-> <<"Query was failed. The reason is ", status.StateChangeReason>>]

\* raise ValueError(f"Query was cancelled. The reason is {status['StateChangeReason']}")
QueryCancelled(status) ==
    [type |-> "ValueError",
     msg  |-> <<"Query was cancelled. The reason is ", status.StateChangeReason>>]

\* raise ValueError(f"Query was failed. The reason is {status['StateChangeReason']}")
QueryFailed(status) ==
    [type |-> "ValueError",
     msg  |-> <<"Query was failed. The reason is ", status.StateChangeReason>>]

Raised(err)    == [kind |-> "raise", error |-> err]
Returned(v)    == [kind |-> "return", value |-> v]
\* exit(code): SystemExit(code) reaches the top of the calling thread
Exited(code)   == [kind |-> "exit", code |-> code]

Event(op, id, arg) == [op |-> op, id |-> id, arg |-> arg]

(***************************************************************************)
(* Athena.create_table, up to the submission of the statements.            *)
(***************************************************************************)
\* table_name = name or f'{prefix}{uuid.uuid4()}'.replace('-', '_')
TableName(name, prefix, uuid) ==
    IF name # NoName THEN name ELSE Replace(prefix \o uuid, "-", "_")

\* query_name = f'{self.workgroup}.{table_name}'
QueryName(workgroup, table_name) == workgroup \o <<".">> \o table_name

\* f'DROP TABLE IF EXISTS {table_name}' run in database self.workgroup
DropStatement(table) ==
    [kind |-> "DROP", table |-> table, database |-> self.workgroup,
     external_location |-> <<>>, query |-> <<>>]

\* CREATE TABLE {query_name} WITH (format = 'ORC',
\*   external_location = '{query_path}') AS {query}
CreateStatement(table, path, query) ==
    [kind |-> "CTAS", table |-> table, database |-> <<>>,
     external_location |-> S3AsStr(path), query |-> query]

\* CreateTableBegin with the DROP TABLE of an overwrite forgotten
CreateTableBeginNoDrop ==
    /\ pc = "start"
    /\ \E uuid \in Uuids :
         LET table_name == TableName(call.name, DefaultPrefix, uuid)
             name       == QueryName(self.workgroup, table_name)
         IN  /\ query_name' = name
             /\ query_path' = S3Resolve(self.s3_output_location, name)
    /\ pc' = IF call.overwrite THEN "delete" ELSE "create"
    /\ UNCHANGED <<self, call, outcome, query_id, response, reports, interrupted,
                   execs, store, trace, bars, fetch>>

\* query() calls create_table(query, params, ask_status_sec): name and
\* overwrite keep their defaults; create_table computes its names and
\* branches on overwrite
CreateTableBegin ==
    /\ pc = "start"
    /\ \E uuid \in Uuids :
         LET table_name == TableName(call.name, DefaultPrefix, uuid)
             name       == QueryName(self.workgroup, table_name)
         IN  /\ query_name' = name
             /\ query_path' = S3Resolve(self.s3_output_location, name)
    /\ pc' = IF call.overwrite THEN "drop_table" ELSE "create"
    /\ UNCHANGED <<self, call, outcome, query_id, response, reports, interrupted,
                   execs, store, trace, bars, fetch>>

\* self._athena.start_query_execution(...)['QueryExecutionId'] followed by
\* the entry into __wait_query_complete (with ProgressBar() as progress);
\* a rejected request raises out of the caller
StartQueryExecution(stmt) ==
    \/ /\ execs' = Append(execs, [stmt |-> stmt, served |-> <<>>])
       /\ query_id' = Len(execs) + 1
       /\ trace' = Append(trace, Event("start_query_execution", Len(execs) + 1, stmt))
       /\ bars' = Append(bars, NewBar("wait"))
       /\ pc' = "get_query_execution"
       /\ UNCHANGED outcome
    \/ \E code \in ServiceErrors :
          /\ trace' = Append(Append(trace, Event("start_query_execution", NoId, stmt)),
                             Event("ClientError", NoId, code))
          /\ outcome' = Raised(ClientError("start_query_execution", code))
          /\ pc' = "done"
          /\ UNCHANGED <<execs, query_id, bars>>

\* __drop_table -> execute_statement: submit DROP TABLE IF EXISTS
DropTable ==
    /\ pc = "drop_table"
    /\ StartQueryExecution(DropStatement(query_name))
    /\ UNCHANGED <<self, call, query_name, query_path, response, reports,
                   interrupted, store, fetch>>

\* the objects of the bucket under a location (Bucket(b).objects.filter(Prefix=p))
ObjectsUnder(objs, loc) ==
    SelectSeq(objs, LAMBDA o : o.bucket = loc.bucket /\ StartsWith(o.key, loc.prefix))

\* S3Client.delete(path): deletes every object the listing of path yields
Delete ==
    /\ pc = "delete"
    /\ trace' = Append(trace, Event("delete", NoId,
                                    [bucket |-> query_path.bucket,
                                     prefix |-> query_path.prefix]))
    /\ store' = SelectSeq(store, LAMBDA o :
                    ~(o.bucket = query_path.bucket /\ StartsWith(o.key, query_path.prefix)))
    /\ pc' = "create"
    /\ UNCHANGED <<self, call, outcome, query_name, query_path, query_id, response,
                   reports, interrupted, execs, bars, fetch>>

\* create_table: submit the CREATE TABLE ... AS statement
Create ==
    /\ pc = "create"
    /\ StartQueryExecution(CreateStatement(query_name, query_path, QueryText))
    /\ UNCHANGED <<self, call, query_name, query_path, response, reports,
                   interrupted, store, fetch>>

(***************************************************************************)
(* Athena.__wait_query_complete.                                           *)
(***************************************************************************)
\* IsPending with QUEUED forgotten
IsPendingRunningOnly(state) == state = "RUNNING"

\* state in ['QUEUED', 'RUNNING']
IsPending(state) == state \in PendingStates

\* the states the service may report next for an execution
ServiceStates(id) ==
    TerminalStates
    \cup (IF Len(execs[id].served) < MaxPending THEN PendingStates ELSE {})

\* response = self._athena.get_query_execution(QueryExecutionId=query_id):
\* the request is sent
GetQueryExecution ==
    /\ pc = "get_query_execution"
    /\ trace' = Append(trace, Event("get_query_execution", query_id, None))
    /\ pc' = "polling"
    /\ UNCHANGED <<self, call, outcome, query_name, query_path, query_id, response,
                   reports, interrupted, execs, store, bars, fetch>>

\* CreateTableResult returning the bare table name, without the workgroup
CreateTableResultBare ==
    SubSeq(query_name, Len(self.workgroup) + 2, Len(query_name))

\* create_table's return value: query_name
CreateTableResult == query_name

\* return response: the with block is left without an exception, then the
\* caller goes on: __drop_table returns to create_table (the paginator of
\* execute_statement is lazy and is dropped); create_table returns its name,
\* and query resolves the location again and enters read_orc under a new bar
WaitReturn(report) ==
    /\ reports' = Append(reports, [id |-> query_id, report |-> report])
    /\ IF execs[query_id].stmt.kind = "DROP"
       THEN /\ bars' = BarExit(bars, FALSE)
            /\ pc' = "delete"
            /\ UNCHANGED <<outcome, query_name, query_path>>
       ELSE IF call.op = "create_table"
       THEN /\ bars' = BarExit(bars, FALSE)
            /\ outcome' = Returned(CreateTableResult)
            /\ pc' = "done"
            /\ UNCHANGED <<query_name, query_path>>
       ELSE /\ query_name' = CreateTableResult
            /\ query_path' = S3Resolve(self.s3_output_location, CreateTableResult)
            /\ bars' = Append(BarExit(bars, FALSE), NewBar("read_orc"))
            /\ pc' = "read_orc"
            /\ UNCHANGED outcome

\* OnStatus returning the response for FAILED as it does for SUCCEEDED
OnStatusFailedReturns(status) ==
    IF IsPending(status.State)
    THEN /\ pc' = "sleep"
         /\ UNCHANGED <<outcome, query_name, query_path, reports, bars>>
    ELSE IF status.State \in {"SUCCEEDED", "FAILED"}
    THEN WaitReturn(status)
    ELSE /\ bars' = BarExit(bars, TRUE)
         /\ outcome' = Raised(QueryCancelled(status))
         /\ pc' = "done"
         /\ UNCHANGED <<query_name, query_path, reports>>

\* OnStatus with a deadline: the second non-terminal state ends the wait
OnStatusGivesUp(status) ==
    IF IsPending(status.State) /\ status.seq < 2
    THEN /\ pc' = "sleep"
         /\ UNCHANGED <<outcome, query_name, query_path, reports, bars>>
    ELSE IF status.State = "SUCCEEDED"
    THEN WaitReturn(status)
    ELSE /\ bars' = BarExit(bars, TRUE)
         /\ outcome' = Raised(IF status.State = "CANCELLED" THEN QueryCancelled(status)
                              ELSE QueryFailed(status))
         /\ pc' = "done"
         /\ UNCHANGED <<query_name, query_path, reports>>

\* the if / elif chain on the state of the response
OnStatus(status) ==
    IF IsPending(status.State)
    THEN /\ pc' = "sleep"
         /\ UNCHANGED <<outcome, query_name, query_path, reports, bars>>
    ELSE IF status.State = "SUCCEEDED"
    THEN WaitReturn(status)
    ELSE IF status.State = "CANCELLED"
    THEN /\ bars' = BarExit(bars, TRUE)
         /\ outcome' = Raised(QueryCancelled(status))
         /\ pc' = "done"
         /\ UNCHANGED <<query_name, query_path, reports>>
    ELSE IF status.State = "FAILED"
    THEN /\ bars' = BarExit(bars, TRUE)
         /\ outcome' = Raised(QueryFailed(status))
         /\ pc' = "done"
         /\ UNCHANGED <<query_name, query_path, reports>>
    ELSE /\ pc' = "get_query_execution"
         /\ UNCHANGED <<outcome, query_name, query_path, reports, bars>>

\* the service answers the status request; an execution of a CREATE TABLE
\* statement that it reports SUCCEEDED has written its result set under the
\* statement's external_location
StatusResponse ==
    /\ pc = "polling"
    /\ \E st \in ServiceStates(query_id) :
       \E reason \in (IF st \in {"FAILED", "CANCELLED"} THEN Reasons ELSE {None}) :
       \E rs \in (IF st = "SUCCEEDED" /\ execs[query_id].stmt.kind = "CTAS"
                  THEN ResultSets ELSE {<<>>}) :
         LET status == [State |-> st, StateChangeReason |-> reason,
                        seq |-> Len(execs[query_id].served) + 1]
             loc    == ExtractPattern(execs[query_id].stmt.external_location)
         IN  /\ execs' = [execs EXCEPT ![query_id].served = Append(@, status)]
             /\ store' = WriteResults(store, loc, rs, 1)
             /\ response' = status
             /\ OnStatus(status)
    /\ UNCHANGED <<self, call, query_id, interrupted, trace, fetch>>

\* StatusFails asking again after a service error
StatusFailsRetries ==
    /\ pc = "polling"
    /\ \E code \in ServiceErrors :
         trace' = Append(trace, Event("ClientError", query_id, code))
    /\ pc' = "get_query_execution"
    /\ UNCHANGED <<self, call, outcome, query_name, query_path, query_id, response,
                   reports, interrupted, execs, store, bars, fetch>>

\* the status request fails with a service error: nothing in the loop
\* catches it, the with block is left with the error
StatusFails ==
    /\ pc = "polling"
    /\ \E code \in ServiceErrors :
         /\ trace' = Append(trace, Event("ClientError", query_id, code))
         /\ outcome' = Raised(ClientError("get_query_execution", code))
    /\ bars' = BarExit(bars, TRUE)
    /\ pc' = "done"
    /\ UNCHANGED <<self, call, query_name, query_path, query_id, response, reports,
                   interrupted, execs, store, fetch>>

\* time.sleep(ask_status_sec)
Sleep ==
    /\ pc = "sleep"
    /\ trace' = Append(trace, Event("sleep", query_id, None))
    /\ pc' = "tick"
    /\ UNCHANGED <<self, call, outcome, query_name, query_path, query_id, response,
                   reports, interrupted, execs, store, bars, fetch>>

\* Tick with the progress.tick() left out
TickSkipped ==
    /\ pc = "tick"
    /\ pc' = "get_query_execution"
    /\ UNCHANGED <<self, call, outcome, query_name, query_path, query_id, response,
                   reports, interrupted, execs, store, trace, bars, fetch>>

\* progress.tick()
Tick ==
    /\ pc = "tick"
    /\ bars' = BarTick(bars)
    /\ trace' = Append(trace, Event("tick", query_id, None))
    /\ pc' = "get_query_execution"
    /\ UNCHANGED <<self, call, outcome, query_name, query_path, query_id, response,
                   reports, interrupted, execs, store, fetch>>

\* a KeyboardInterrupt is delivered while the thread is inside the try block:
\* waiting for the status response, sleeping, or ticking
KeyboardInterrupt ==
    /\ pc \in {"polling", "sleep", "tick"}
    /\ ~interrupted
    /\ interrupted' = TRUE
    /\ trace' = Append(trace, Event("KeyboardInterrupt", query_id, pc))
    /\ pc' = "except"
    /\ UNCHANGED <<self, call, outcome, query_name, query_path, query_id, response,
                   reports, execs, store, bars, fetch>>

\* ExceptKeyboardInterrupt without the exit(0): the loop goes on
ExceptKeyboardInterruptNoExit ==
    /\ pc = "except"
    /\ trace' = Append(trace, Event("stop_query_execution", query_id, None))
    /\ pc' = "get_query_execution"
    /\ UNCHANGED <<self, call, outcome, query_name, query_path, query_id, response,
                   reports, interrupted, execs, store, bars, fetch>>

\* ExceptKeyboardInterrupt with raise in place of exit(0)
ExceptKeyboardInterruptReraise ==
    /\ pc = "except"
    /\ trace' = Append(trace, Event("stop_query_execution", query_id, None))
    /\ bars' = BarExit(bars, TRUE)
    /\ outcome' = Raised([type |-> "KeyboardInterrupt", msg |-> <<>>])
    /\ pc' = "done"
    /\ UNCHANGED <<self, call, query_name, query_path, query_id, response, reports,
                   interrupted, execs, store, fetch>>

\* ExceptKeyboardInterrupt returning to the caller in place of exit(0)
ExceptKeyboardInterruptReturns ==
    /\ pc = "except"
    /\ trace' = Append(trace, Event("stop_query_execution", query_id, None))
    /\ WaitReturn(response)
    /\ UNCHANGED <<self, call, query_id, response, interrupted, execs, store, fetch>>

\* except KeyboardInterrupt: self.cancel_query(query_id); exit(0)
\* cancel_query sends stop_query_execution, a request whose answer carries
\* nothing the client reads (it is taken to be accepted); exit(0) raises
\* SystemExit(0), which leaves the with block (a traceback is passed to
\* __exit__) and every caller
ExceptKeyboardInterrupt ==
    /\ pc = "except"
    /\ trace' = Append(trace, Event("stop_query_execution", query_id, None))
    /\ bars' = BarExit(bars, TRUE)
    /\ outcome' = Exited(0)
    /\ pc' = "done"
    /\ UNCHANGED <<self, call, query_name, query_path, query_id, response, reports,
                   interrupted, execs, store, fetch>>

(***************************************************************************)
(* S3Client.read_orc, called by Athena.query under its own ProgressBar.    *)
(***************************************************************************)
\* pyarrow.concat_tables(tables): at least one table is required and all
\* schemas must equal the first; the rows are concatenated in order
RECURSIVE ConcatRows(_)
ConcatRows(tables) ==
    IF tables = <<>> THEN <<>> ELSE tables[1].rows \o ConcatRows(Tail(tables))

ConcatTables(tables) ==
    IF tables = <<>>
    THEN [ok |-> FALSE,
          error |-> [type |-> "ArrowInvalid", msg |-> <<"Must pass at least one table">>]]
    ELSE IF \E i \in 1..Len(tables) : tables[i].schema # tables[1].schema
    THEN [ok |-> FALSE,
          error |-> [type |-> "ArrowInvalid", msg |-> <<"Schema was different">>]]
    ELSE [ok |-> TRUE,
          table |-> [schema |-> tables[1].schema, rows |-> ConcatRows(tables)]]

\* pd.DataFrame()
EmptyDataFrame == [schema |-> "", rows |-> <<>>]

\* what orc.ORCFile(buffer).read() raises on bytes that are no ORC file
OrcError(key) == [type |-> "ArrowError", msg |-> <<"orc.ORCFile", key>>]

\* threads = os.cpu_count() if n_jobs == -1 else n_jobs
Threads(n_jobs) == IF n_jobs = -1 THEN CpuCount ELSE n_jobs

\* list_paths(path): the listing of the bucket under the prefix, each object
\* turned into S3Path(f's3://{ob.bucket_name}/{ob.key}')
ListPaths(objs, loc) ==
    LET found == ObjectsUnder(objs, loc)
    IN  [i \in 1..Len(found) |->
            S3PathInit(SchemeS3 \o found[i].bucket \o <<SLASH>> \o found[i].key)]

\* get_object(Bucket=path.bucket, Key=path.prefix): the object stored there
GetObject(objs, p) ==
    LET i == CHOOSE k \in 1..Len(objs) : objs[k].bucket = p.bucket /\ objs[k].key = p.prefix
    IN  objs[i]

\* bool(tables) in `concat_tables(tables).to_pandas() if tables else
\* pd.DataFrame()`: run_sequentially() is a generator object, which is always
\* true; run_concurrently returns a list, true when it is not empty
Truthy(mode, tables) == IF mode = "sequential" THEN TRUE ELSE Len(tables) > 0

\* read_orc's last line given the decoded tables, and query's return: the
\* with block of query is left with or without an exception
FetchResult(mode, tables) ==
    IF Truthy(mode, tables)
    THEN LET merged == ConcatTables(tables)
         IN  IF merged.ok THEN Returned(merged.table) ELSE Raised(merged.error)
    ELSE Returned(EmptyDataFrame)

Finish(result) ==
    /\ outcome' = result
    /\ bars' = BarExit(bars, result.kind # "return")
    /\ pc' = "done"

\* read_orc: n_jobs == 1 makes the generator run_sequentially(), whose body
\* starts (and lists the location) when concat_tables asks for the first
\* table; otherwise run_concurrently opens ThreadPool(threads) and map_async
\* lists the location and queues one job per listed path
ReadOrc ==
    /\ pc = "read_orc"
    /\ trace' = Append(trace, Event("list", NoId,
                                    [bucket |-> query_path.bucket,
                                     prefix |-> query_path.prefix]))
    /\ LET paths == ListPaths(store, query_path)
       IN  IF self.n_jobs = 1
           THEN /\ fetch' = [NoFetch EXCEPT !.mode = "sequential", !.paths = paths,
                                            !.idx = 1]
                /\ pc' = "seq_next"
           ELSE /\ fetch' = [NoFetch EXCEPT !.mode = "pool", !.paths = paths,
                                            !.threads = Threads(self.n_jobs),
                                            !.pending = [i \in 1..Len(paths) |-> i],
                                            !.results = [i \in 1..Len(paths) |-> BadFragment]]
                /\ pc' = "pool_wait"
    /\ UNCHANGED <<self, call, outcome, query_name, query_path, query_id, response,
                   reports, interrupted, execs, store, bars>>

\* SeqLoad skipping an object that cannot be decoded
SeqLoadSkipsBad ==
    /\ pc = "seq_next"
    /\ fetch.idx <= Len(fetch.paths)
    /\ LET p   == fetch.paths[fetch.idx]
           obj == GetObject(store, p)
       IN  /\ trace' = Append(trace, Event("get", fetch.idx,
                                           [bucket |-> p.bucket, key |-> p.prefix]))
           /\ fetch' = [fetch EXCEPT !.tables = IF obj.frag.ok THEN Append(@, obj.frag) ELSE @]
           /\ pc' = "seq_tick"
    /\ UNCHANGED <<self, call, outcome, query_name, query_path, query_id, response,
                   reports, interrupted, execs, store, bars>>

\* run_sequentially: yield S3Client._load_orc_table(p): the object is read
\* and decoded; a decode error leaves the generator, concat_tables, read_orc
\* and query
SeqLoad ==
    /\ pc = "seq_next"
    /\ fetch.idx <= Len(fetch.paths)
    /\ LET p   == fetch.paths[fetch.idx]
           obj == GetObject(store, p)
       IN  /\ trace' = Append(trace, Event("get", fetch.idx,
                                           [bucket |-> p.bucket, key |-> p.prefix]))
           /\ IF obj.frag.ok
              THEN /\ fetch' = [fetch EXCEPT !.tables = Append(@, obj.frag)]
                   /\ pc' = "seq_tick"
                   /\ UNCHANGED <<outcome, bars>>
              ELSE /\ Finish(Raised(OrcError(p.prefix)))
                   /\ UNCHANGED fetch
    /\ UNCHANGED <<self, call, query_name, query_path, query_id, response, reports,
                   interrupted, execs, store>>

\* SeqTick with the progress.tick() left out
SeqTickSkipped ==
    /\ pc = "seq_tick"
    /\ fetch' = [fetch EXCEPT !.idx = @ + 1]
    /\ pc' = "seq_next"
    /\ UNCHANGED <<self, call, outcome, query_name, query_path, query_id, response,
                   reports, interrupted, execs, store, trace, bars>>

\* run_sequentially: progress.tick() when the generator is resumed
SeqTick ==
    /\ pc = "seq_tick"
    /\ bars' = BarTick(bars)
    /\ trace' = Append(trace, Event("tick", fetch.idx, None))
    /\ fetch' = [fetch EXCEPT !.idx = @ + 1]
    /\ pc' = "seq_next"
    /\ UNCHANGED <<self, call, outcome, query_name, query_path, query_id, response,
                   reports, interrupted, execs, store>>

\* the generator is exhausted: concat_tables(...).to_pandas() and return
SeqConcat ==
    /\ pc = "seq_next"
    /\ fetch.idx > Len(fetch.paths)
    /\ Finish(FetchResult(fetch.mode, fetch.tables))
    /\ UNCHANGED <<self, call, query_name, query_path, query_id, response, reports,
                   interrupted, execs, store, trace, fetch>>

\* Ready that also holds as soon as one job has failed
ReadyOnFirstFailure ==
    \/ fetch.failed # <<>>
    \/ fetch.pending = <<>> /\ fetch.running = {}

\* feature.ready(): every queued job has ended, well or not
Ready == fetch.pending = <<>> /\ fetch.running = {}

\* WorkerTake with no limit on the jobs that run at a time
WorkerTakeUnbounded ==
    /\ pc = "pool_wait"
    /\ fetch.pending # <<>>
    /\ fetch' = [fetch EXCEPT !.running = @ \cup {Head(fetch.pending)},
                              !.pending = Tail(@)]
    /\ UNCHANGED <<self, call, pc, outcome, query_name, query_path, query_id,
                   response, reports, interrupted, execs, store, trace, bars>>

\* a worker thread of the pool takes the next job: ThreadPool(threads) has
\* that many worker threads, each running one job at a time
WorkerTake ==
    /\ pc = "pool_wait"
    /\ fetch.pending # <<>>
    /\ Cardinality(fetch.running) < fetch.threads
    /\ fetch' = [fetch EXCEPT !.running = @ \cup {Head(fetch.pending)},
                              !.pending = Tail(@)]
    /\ UNCHANGED <<self, call, pc, outcome, query_name, query_path, query_id,
                   response, reports, interrupted, execs, store, trace, bars>>

\* a worker thread runs S3Client._load_orc_table on its job; the first
\* error of the map is the one kept
WorkerLoad ==
    /\ pc = "pool_wait"
    /\ \E j \in fetch.running :
         LET p   == fetch.paths[j]
             obj == GetObject(store, p)
         IN  /\ trace' = Append(trace, Event("get", j,
                                             [bucket |-> p.bucket, key |-> p.prefix]))
             /\ fetch' = [fetch EXCEPT !.running = @ \ {j},
                                       !.results[j] = obj.frag,
                                       !.failed = IF obj.frag.ok THEN @ ELSE Append(@, j)]
    /\ UNCHANGED <<self, call, pc, outcome, query_name, query_path, query_id,
                   response, reports, interrupted, execs, store, bars>>

\* while progress and not feature.ready(): progress.tick(); time.sleep(5)
PoolTick ==
    /\ pc = "pool_wait"
    /\ ~Ready
    /\ fetch.ticks < MaxPoolTicks
    /\ bars' = BarTick(bars)
    /\ trace' = Append(Append(trace, Event("tick", NoId, None)), Event("sleep", NoId, None))
    /\ fetch' = [fetch EXCEPT !.ticks = @ + 1]
    /\ UNCHANGED <<self, call, pc, outcome, query_name, query_path, query_id,
                   response, reports, interrupted, execs, store>>

\* return feature.get(): the tables in the order of the listing, or the
\* first error of a job; then read_orc's last line
PoolGet ==
    /\ pc = "pool_wait"
    /\ Ready
    /\ IF fetch.failed # <<>>
       THEN Finish(Raised(OrcError(fetch.paths[fetch.failed[1]].prefix)))
       ELSE Finish(FetchResult(fetch.mode, fetch.results))
    /\ UNCHANGED <<self, call, query_name, query_path, query_id, response, reports,
                   interrupted, execs, store, trace, fetch>>

Next ==
    \/ CreateTableBegin
    \/ DropTable
    \/ Delete
    \/ Create
    \/ GetQueryExecution
    \/ StatusResponse
    \/ StatusFails
    \/ Sleep
    \/ Tick
    \/ KeyboardInterrupt
    \/ ExceptKeyboardInterrupt
    \/ ReadOrc
    \/ SeqLoad
    \/ SeqTick
    \/ SeqConcat
    \/ WorkerTake
    \/ WorkerLoad
    \/ PoolTick
    \/ PoolGet

Spec == Init /\ [][Next]_vars

\* create_table on a named table, by itself: the statements it submits and
\* the waits for them
WaitInit ==
    /\ Init
    /\ call.op = "create_table"
    /\ call.name # NoName
    /\ self.n_jobs = 1
    /\ Len(store) < 2

WaitNext ==
    \/ CreateTableBegin
    \/ DropTable
    \/ Delete
    \/ Create
    \/ GetQueryExecution
    \/ StatusResponse
    \/ StatusFails
    \/ Sleep
    \/ Tick
    \/ KeyboardInterrupt
    \/ ExceptKeyboardInterrupt

\* the calling thread keeps running and the service answers every request
\* (with a state or with an error): a step that stays possible is taken
WaitSpec == WaitInit /\ [][WaitNext]_vars /\ WF_vars(WaitNext)

(***************************************************************************)
(* The pure functions called on their own: S3Path(base) / name followed by *)
(* S3Path(str(...)) of the result, and infuse(string, params).             *)
(***************************************************************************)
\* Most slashes repeated at the end of a base location or at the head of a name.
MaxSlashes == 2

Slashes(n) == [i \in 1..n |-> SLASH]

\* base locations 's3://b/x' and 's3a://b/x' followed by 0..MaxSlashes slashes
ResolveBases ==
    {scheme \o <<"b", "/", "x">> \o Slashes(k) :
        scheme \in {SchemeS3, SchemeS3A}, k \in 0..MaxSlashes}

\* names 'y', 'y/z' and 'y/' preceded by 0..MaxSlashes slashes
ResolveNames ==
    {Slashes(k) \o n : k \in 0..MaxSlashes,
                       n \in {<<"y">>, <<"y", "/", "z">>, <<"y", "/">>}}

ResolveCalls ==
    {[op |-> "resolve", base |-> b, name |-> n] : b \in ResolveBases, n \in ResolveNames}

\* texts: '${a}', 'x${a}${b}', '${a},${a}', '${c}' and 'q'
InfuseTexts ==
    {Token(<<"a">>),
     <<"x">> \o Token(<<"a">>) \o Token(<<"b">>),
     Token(<<"a">>) \o <<",">> \o Token(<<"a">>),
     Token(<<"c">>),
     <<"q">>}

\* values: 'v', ['u', 7], 10, Expr('t'), and the text '${b}' as an Expr and
\* as a str
InfuseValues ==
    {StrValue(<<"v">>),
     ListValue(<<StrValue(<<"u">>), IntValue(7)>>),
     IntValue(10),
     ExprValue(<<"t">>),
     ExprValue(Token(<<"b">>)),
     StrValue(Token(<<"b">>))}

\* params: None, or a dict over the keys a and b in either insertion order
InfuseParams ==
    {<<>>}
    \cup {<<[key |-> k, value |-> v]>> : k \in {<<"a">>, <<"b">>}, v \in InfuseValues}
    \cup {<<[key |-> k[1], value |-> v], [key |-> k[2], value |-> w]>> :
              k \in {<<<<"a">>, <<"b">>>>, <<<<"b">>, <<"a">>>>},
              v \in InfuseValues, w \in InfuseValues}

InfuseCalls ==
    {[op |-> "infuse", string |-> s, params |-> p] : s \in InfuseTexts, p \in InfuseParams}

PureInit ==
    /\ call \in ResolveCalls \cup InfuseCalls
    /\ self = [workgroup |-> <<>>, s3_output_location |-> NoPath, n_jobs |-> 1]
    /\ pc = "start"
    /\ outcome = Running
    /\ query_name = <<>>
    /\ query_path = NoPath
    /\ query_id = NoId
    /\ response = NoResponse
    /\ reports = <<>>
    /\ interrupted = FALSE
    /\ execs = <<>>
    /\ store = <<>>
    /\ trace = <<>>
    /\ bars = <<>>
    /\ fetch = NoFetch

\* S3Path(base) / name
Resolve ==
    /\ pc = "start"
    /\ call.op = "resolve"
    /\ query_path' = S3Resolve(S3PathInit(call.base), call.name)
    /\ pc' = "parse"
    /\ UNCHANGED <<self, call, outcome, query_name, query_id, response, reports,
                   interrupted, execs, store, trace, bars, fetch>>

\* S3Path(str(path)) of the resolved path
ParseBack ==
    /\ pc = "parse"
    /\ outcome' = Returned(S3PathInit(S3AsStr(query_path)))
    /\ pc' = "done"
    /\ UNCHANGED <<self, call, query_name, query_path, query_id, response, reports,
                   interrupted, execs, store, trace, bars, fetch>>

\* infuse(string, params)
InfuseCall ==
    /\ pc = "start"
    /\ call.op = "infuse"
    /\ outcome' = Returned(Infuse(call.string, call.params))
    /\ pc' = "done"
    /\ UNCHANGED <<self, call, query_name, query_path, query_id, response, reports,
                   interrupted, execs, store, trace, bars, fetch>>

PureNext ==
    \/ Resolve
    \/ ParseBack
    \/ InfuseCall

PureSpec == PureInit /\ [][PureNext]_vars

(***************************************************************************)
(* Properties.                                                             *)
(***************************************************************************)
\* number of events of the trace with the given op and id
Count(op, id) ==
    Cardinality({i \in 1..Len(trace) : trace[i].op = op /\ trace[i].id = id})

\* positions of the trace with the given op
At(op) == {i \in 1..Len(trace) : trace[i].op = op}

LastServed(id) == execs[id].served[Len(execs[id].served)]

\* C1: a wait whose status sequence is k >= 0 non-terminal states followed
\* by SUCCEEDED, and which is not interrupted, sends exactly k+1 status
\* requests, sleeps exactly k times and returns the report of the last
\* status request.
C1_PollsUntilSucceeded ==
    /\ \A r \in 1..Len(reports) :
         LET id     == reports[r].id
             script == execs[id].served
             k      == Len(script) - 1
         IN  /\ k >= 0
             /\ \A i \in 1..k : script[i].State \in {"QUEUED", "RUNNING"}
             /\ script[k + 1].State = "SUCCEEDED"
             /\ Count("get_query_execution", id) = k + 1
             /\ Count("sleep", id) = k
             /\ reports[r].report = script[k + 1]
             /\ reports[r].report.seq = k + 1
    /\ \A id \in 1..Len(execs) :
         (execs[id].served # <<>> /\ LastServed(id).State = "SUCCEEDED")
             => \E r \in 1..Len(reports) : reports[r].id = id

\* a wait that has returned after QUEUED, RUNNING, SUCCEEDED
C1_Witness ==
    \E r \in 1..Len(reports) :
        LET script == execs[reports[r].id].served
        IN  /\ Len(script) = 3
            /\ script[1].State = "QUEUED"
            /\ script[2].State = "RUNNING"
            /\ Count("sleep", reports[r].id) = 2

\* C2: a status of FAILED ends the wait with the error text of a failed
\* query and the reason of the service, a status of CANCELLED with the error
\* text of a cancelled query and the reason of the service; the texts
\* differ; no status request follows and no cancel request is sent.
C2_TerminalFailure ==
    \A id \in 1..Len(execs) :
        (execs[id].served # <<>> /\ LastServed(id).State \in {"FAILED", "CANCELLED"})
            => /\ pc = "done"
               /\ outcome.kind = "raise"
               /\ outcome.error.type = "ValueError"
               /\ outcome.error.msg[1] =
                      (IF LastServed(id).State = "FAILED"
                       THEN "Query was failed. The reason is "
                       ELSE "Query was cancelled. The reason is ")
               /\ outcome.error.msg[2] = LastServed(id).StateChangeReason
               /\ outcome.error.msg[2] \in Reasons
               /\ Count("get_query_execution", id) = Len(execs[id].served)
               /\ id = Len(execs)
               /\ At("stop_query_execution") = {}

\* a CREATE TABLE execution reported CANCELLED with reason r2 after a sleep
C2_Witness ==
    /\ execs # <<>>
    /\ Len(execs[Len(execs)].served) > 1
    /\ LastServed(Len(execs)).State = "CANCELLED"
    /\ LastServed(Len(execs)).StateChangeReason = "r2"
    /\ pc = "done"

\* C3: a KeyboardInterrupt delivered during the status request, the sleep or
\* the tick leads to exactly one cancel request, for the execution awaited,
\* and no status request (nor any other request) follows the interrupt.
C3_InterruptCancelsOnce ==
    interrupted =>
        LET i == CHOOSE k \in At("KeyboardInterrupt") : TRUE
        IN  /\ Cardinality(At("KeyboardInterrupt")) = 1
            /\ trace[i].id = query_id
            /\ \A j \in (i + 1)..Len(trace) :
                   /\ trace[j].op = "stop_query_execution"
                   /\ trace[j].id = trace[i].id
            /\ Len(trace) <= i + 1
            /\ pc \in {"except", "done"}
            /\ (pc = "done") = (Len(trace) = i + 1)

\* the wait for the CREATE TABLE of an overwrite was interrupted in the tick
C3_Witness ==
    /\ interrupted
    /\ pc = "done"
    /\ query_id = 2
    /\ \E i \in At("KeyboardInterrupt") : trace[i].arg = "tick"
    /\ Count("stop_query_execution", 2) = 1

Submits(kind) ==
    {i \in At("start_query_execution") : trace[i].arg.kind = kind}

\* the execution of a statement of the given kind was observed SUCCEEDED
Succeeded(kind) ==
    \E r \in 1..Len(reports) :
        /\ execs[reports[r].id].stmt.kind = kind
        /\ reports[r].report.State = "SUCCEEDED"

\* C5: in query, the object store is listed or read only after the CREATE
\* TABLE execution of the call was observed SUCCEEDED; when that execution
\* ends FAILED or CANCELLED, or the submission is rejected, the store is
\* never listed or read.
C5_FetchOnlyAfterSuccess ==
    call.op = "query" =>
        /\ (At("list") \cup At("get") # {})
               => /\ Succeeded("CTAS")
                  /\ \A i \in At("list") \cup At("get") :
                         \E c \in Submits("CTAS") : c < i /\ trace[c].id # NoId
        /\ (\E id \in 1..Len(execs) :
                /\ execs[id].served # <<>>
                /\ LastServed(id).State \in {"FAILED", "CANCELLED"})
               => At("list") \cup At("get") = {}
        /\ (\E c \in Submits("CTAS") : trace[c].id = NoId)
               => At("list") \cup At("get") = {}

\* a query has listed its location and read two objects
C5_Witness ==
    /\ call.op = "query"
    /\ pc = "done"
    /\ Cardinality(At("list")) = 1
    /\ Cardinality(At("get")) = 2

\* C6: create_table with overwrite submits DROP TABLE IF EXISTS, awaits its
\* end, deletes the objects of the location and then submits CREATE TABLE,
\* in this order; unless the DROP execution was observed SUCCEEDED nothing
\* is deleted and no CREATE TABLE is submitted.
C6_OverwriteOrder ==
    call.overwrite =>
        /\ trace # <<>> => 1 \in Submits("DROP")
        /\ Cardinality(Submits("DROP")) <= 1
        /\ Cardinality(At("delete")) <= 1
        /\ \A d \in At("delete") :
               /\ Succeeded("DROP")
               /\ \A i \in 1..(d - 1) :
                      /\ trace[i].op \in {"start_query_execution", "get_query_execution",
                                          "sleep", "tick"}
                      /\ trace[i].id = 1
               /\ \A i \in (d + 1)..Len(trace) : trace[i].id # 1
        /\ \A c \in Submits("CTAS") : \E d \in At("delete") : d + 1 = c
        /\ ~Succeeded("DROP") => (At("delete") = {} /\ Submits("CTAS") = {})

\* an overwrite of a location that held objects has submitted its CREATE TABLE
C6_Witness ==
    /\ call.overwrite
    /\ Submits("CTAS") # {}
    /\ \E d \in At("delete") : d > 3
    /\ ~(\E k \in 1..Len(store) : store[k] = ResidualObject)

\* the listed objects, as stored
Listed == [i \in 1..Len(fetch.paths) |-> GetObject(store, fetch.paths[i])]

\* number of rows of value v
Occurrences(rows, v) == Cardinality({i \in 1..Len(rows) : rows[i] = v})

\* the rows of the fragments of the listed objects
RECURSIVE RowsOf(_)
RowsOf(objs) ==
    IF objs = <<>> THEN <<>> ELSE objs[1].frag.rows \o RowsOf(Tail(objs))

\* C7: when the listing of the result location is empty, the fetch returns
\* an empty table and never an error, for n_jobs = 1, n_jobs > 1 and
\* n_jobs = -1.
C7_EmptyListingGivesEmptyTable ==
    (pc = "done" /\ At("list") # {} /\ fetch.paths = <<>>)
        => /\ outcome.kind = "return"
           /\ outcome.value.rows = <<>>

\* C8: for a fixed set of result objects, the empty set included, the fetch
\* gives for every n_jobs the same outcome: a table holding the rows of the
\* fragment of each listed object exactly once, with their schema.
C8_SameOutcomeForEveryConcurrency ==
    (pc = "done" /\ At("list") # {} /\ \A i \in 1..Len(Listed) : Listed[i].frag.ok)
        => /\ outcome.kind = "return"
           /\ \A v \in 0..(MaxObjects + 1) :
                  Occurrences(outcome.value.rows, v) = Occurrences(RowsOf(Listed), v)
           /\ \A i \in 1..Len(Listed) : outcome.value.schema = Listed[i].frag.schema

\* C9: when an object of the result set cannot be decoded, the fetch raises
\* the decode error and returns no table, in sequential mode and in pool
\* mode, wherever the object is in the listing.
C9_DecodeFailureFailsFetch ==
    (pc = "done" /\ At("list") # {} /\ \E i \in 1..Len(Listed) : ~Listed[i].frag.ok)
        => /\ outcome.kind = "raise"
           /\ outcome.error.type = "ArrowError"
           /\ \E i \in 1..Len(Listed) :
                  /\ ~Listed[i].frag.ok
                  /\ outcome.error.msg[2] = Listed[i].key

\* a fetch whose second object of two cannot be decoded has ended, the first
\* object decoded
C9_Witness ==
    /\ pc = "done"
    /\ Len(fetch.paths) = 2
    /\ Listed[1].frag.ok
    /\ ~Listed[2].frag.ok
    /\ Cardinality(At("get")) = 2
    /\ outcome.kind = "raise"

\* C10: the location query lists is the external_location of the CREATE
\* TABLE statement the call submitted: both are s3_output_location resolved
\* with the name '<workgroup>.<table name>' create_table returns.
C10_FetchLocationIsExternalLocation ==
    (call.op = "query" /\ At("list") # {}) =>
        \A c \in Submits("CTAS") : \A l \in At("list") :
            LET stmt == trace[c].arg
                loc  == ExtractPattern(stmt.external_location)
            IN  /\ trace[l].arg.bucket = loc.bucket
                /\ trace[l].arg.prefix = loc.prefix
                /\ S3AsStr(query_path) = stmt.external_location
                /\ query_name = stmt.table
                /\ StartsWith(query_name, self.workgroup \o <<".">>)
                /\ stmt.external_location =
                       AsStr(<<AsStr(self.s3_output_location.path), query_name>>)

\* a query on an output location written with a trailing slash has listed
\* its result location
C10_Witness ==
    /\ call.op = "query"
    /\ At("list") # {}
    /\ self.s3_output_location.path[1][Len(self.s3_output_location.path[1])] = SLASH
    /\ query_path.prefix = <<"x", "/", "w", ".", "t", "m", "p", "_", "a", "_", "1">>

\* C11: resolving a base location with a name gives the base without its
\* trailing slashes, one slash, and the name without its leading slashes,
\* however many slashes the base ends with and the name begins with; parsing
\* the resulting string gives the same bucket and prefix.
C11_ResolveNormalisesSlashes ==
    (call.op = "resolve" /\ pc \in {"parse", "done"})
        => /\ S3AsStr(query_path) =
                  RStrip(call.base, SLASH) \o <<SLASH>> \o LStrip(call.name, SLASH)
           /\ pc = "done"
                  => /\ outcome.value.valid
                     /\ outcome.value.bucket = query_path.bucket
                     /\ outcome.value.prefix = query_path.prefix

\* the text the claim of C15 puts in place of a token: a str in single
\* quotes, the items of a list each in single quotes and joined by commas,
\* an Expr and any other value as their plain text
RECURSIVE QuotedItems(_)
QuotedItems(items) ==
    IF items = <<>> THEN <<>>
    ELSE LET item == items[1]
             text == IF item.type = "int" THEN IntToStr(item.value) ELSE item.value
         IN  (<<"'">> \o text \o <<"'">>)
             \o (IF Len(items) > 1 THEN <<",">> ELSE <<>>)
             \o QuotedItems(Tail(items))

Inserted(v) ==
    CASE v.type = "str"  -> <<"'">> \o v.value \o <<"'">>
      [] v.type = "list" -> QuotedItems(v.items)
      [] v.type = "int"  -> IntToStr(v.value)
      [] v.type = "Expr" -> v.content

\* string with every token of a key of params replaced, in one pass from the
\* left, by the text of the key's value
RECURSIVE Substituted(_, _)
Substituted(string, params) ==
    IF string = <<>> THEN <<>>
    ELSE LET hits == {i \in 1..Len(params) : StartsWith(string, Token(params[i].key))}
         IN  IF hits = {}
             THEN <<string[1]>> \o Substituted(Tail(string), params)
             ELSE LET i == CHOOSE k \in hits : TRUE
                  IN  Inserted(params[i].value)
                      \o Substituted(SubSeq(string, Len(Token(params[i].key)) + 1,
                                            Len(string)),
                                     params)

\* C15: infuse returns the text with every token ${key} of a key of params
\* replaced by the key's value: a str in single quotes, a list as its items
\* in single quotes joined by commas, any other value and an Expr unquoted;
\* without params the text is returned as it is.
C15_InfuseSubstitutesEveryToken ==
    (call.op = "infuse" /\ pc = "done")
        => outcome.value =
               (IF call.params = <<>> THEN call.string
                ELSE Substituted(call.string, call.params))

\* a parameter value holds the token of a key that comes later in params
NestedToken(params) ==
    \E i \in 1..Len(params) : \E j \in (i + 1)..Len(params) :
        LET text  == ReplaceValue(params[i].value)
            token == Token(params[j].key)
        IN  \E k \in 1..Len(text) : StartsWith(SubSeq(text, k, Len(text)), token)

\* C15 where no inserted value holds the token of a later key
C15_HoldsWithoutNestedTokens ==
    (call.op = "infuse" /\ pc = "done" /\ ~NestedToken(call.params))
        => outcome.value =
               (IF call.params = <<>> THEN call.string
                ELSE Substituted(call.string, call.params))

\* C12: a service error on a status request or on a submission is raised to
\* the caller as it is; the request is not sent again, no status request
\* follows for the execution and no cancel request is sent.
C12_ServiceErrorPropagates ==
    \A i \in At("ClientError") :
        /\ i = Len(trace)
        /\ i > 1
        /\ trace[i - 1].op \in {"get_query_execution", "start_query_execution"}
        /\ trace[i - 1].id = trace[i].id
        /\ (trace[i - 1].op = "start_query_execution") = (trace[i].id = NoId)
        /\ pc = "done"
        /\ outcome = Raised(ClientError(trace[i - 1].op, trace[i].arg))
        /\ At("stop_query_execution") = {}
        /\ Cardinality(At("ClientError")) = 1

\* the second status request for the CREATE TABLE of an overwrite was
\* rejected with a throttling error
C12_Witness ==
    /\ call.overwrite
    /\ At("ClientError") # {}
    /\ trace[Len(trace)].id = 2
    /\ trace[Len(trace)].arg = "ThrottlingException"
    /\ Count("get_query_execution", 2) = 2

\* positions of the calling thread inside the loop of __wait_query_complete
WaitPcs == {"get_query_execution", "polling", "sleep", "tick"}

\* the wait for execution id is over
WaitEnded(id) == ~(id = query_id /\ pc \in WaitPcs \cup {"except"})

\* the service has reported a terminal state for execution id
ReportedTerminal(id) ==
    execs[id].served # <<>> /\ LastServed(id).State \in TerminalStates

\* C13: the wait has no deadline: it ends only on a terminal state, an
\* interrupt or a service error; while the states reported are QUEUED or
\* RUNNING it goes on with the next status request, however many there were,
\* and a terminal state ends it; every wait of a service that comes to
\* report a terminal state ends.
C13_WaitEndsOnlyOnTerminalState ==
    /\ [](\A id \in 1..Len(execs) :
             /\ ReportedTerminal(id) => WaitEnded(id)
             /\ WaitEnded(id)
                    => \/ ReportedTerminal(id)
                       \/ interrupted
                       \/ At("ClientError") # {}
             /\ ~WaitEnded(id)
                    => /\ \A i \in 1..Len(execs[id].served) :
                              execs[id].served[i].State \in PendingStates
                       /\ Count("get_query_execution", id) - Len(execs[id].served)
                              \in {0, 1}
                       /\ ENABLED (GetQueryExecution \/ StatusResponse \/ Sleep \/ Tick
                                       \/ ExceptKeyboardInterrupt))
    /\ ((pc \in WaitPcs) ~> (pc \notin WaitPcs))

\* after MaxPending non-terminal states the wait sends one more status request
C13_Witness ==
    /\ pc = "polling"
    /\ ~interrupted
    /\ Len(execs[query_id].served) = MaxPending
    /\ Count("get_query_execution", query_id) = MaxPending + 1

\* C14: in pool mode at most N objects are read and decoded at a time, N
\* being n_jobs, or the number of processing units of the host when n_jobs
\* is -1; every listed object is dispatched exactly once: it is queued,
\* running or decoded, and decoded once when the fetch has ended.
C14_PoolBoundAndDispatchOnce ==
    fetch.mode = "pool" =>
        /\ fetch.threads = (IF self.n_jobs = -1 THEN CpuCount ELSE self.n_jobs)
        /\ Cardinality(fetch.running) <= fetch.threads
        /\ \A j \in 1..Len(fetch.paths) :
               Cardinality({k \in 1..Len(fetch.pending) : fetch.pending[k] = j})
                   + (IF j \in fetch.running THEN 1 ELSE 0)
                   + Count("get", j) = 1
        /\ \A i \in At("get") :
               /\ trace[i].id \in 1..Len(fetch.paths)
               /\ trace[i].arg.key = fetch.paths[trace[i].id].prefix
        /\ pc = "done" => \A j \in 1..Len(fetch.paths) : Count("get", j) = 1

\* with n_jobs = -1 every worker of the pool is busy and a listed object
\* waits in the queue
C14_Witness ==
    /\ fetch.mode = "pool"
    /\ self.n_jobs = -1
    /\ fetch.pending # <<>>
    /\ Cardinality(fetch.running) = fetch.threads

\* positions of the events with the given op that the wait for execution id
\* has left in the trace (the events of read_orc come after the listing)
WaitEvents(op, id) ==
    {i \in At(op) : trace[i].id = id /\ \A l \in At("list") : i < l}

\* number of non-terminal states reported for execution id
PendingServed(id) ==
    Cardinality({k \in 1..Len(execs[id].served) :
                    execs[id].served[k].State \in PendingStates})

\* C16 as claimed: every non-terminal status gives exactly one tick, and the
\* tick is emitted before the sleep begins.
C16_TickBeforeSleep ==
    \A id \in 1..Len(execs) :
        /\ \A i \in WaitEvents("sleep", id) :
               /\ i > 1
               /\ trace[i - 1].op = "tick"
               /\ trace[i - 1].id = id
        /\ Cardinality(WaitEvents("tick", id)) <= PendingServed(id)

\* C16, amended: every status request answered with a non-terminal state is
\* followed by one sleep and then by exactly one tick, the sleep first; the
\* bar counts the ticks; only an interrupt in the sleep or in the tick
\* leaves a non-terminal status without its tick.
C16_OneTickAfterEachSleep ==
    \A id \in 1..Len(execs) :
        LET sleeps == WaitEvents("sleep", id)
            ticks  == WaitEvents("tick", id)
        IN  /\ \A i \in sleeps :
                   /\ trace[i - 1].op = "get_query_execution"
                   /\ trace[i - 1].id = id
            /\ \A i \in ticks :
                   /\ trace[i - 1].op = "sleep"
                   /\ trace[i - 1].id = id
            /\ Cardinality(ticks) = bars[id].progress
            /\ Cardinality(ticks) <= Cardinality(sleeps)
            /\ Cardinality(sleeps) <= PendingServed(id)
            /\ PendingServed(id) <= Cardinality(ticks) + 1
            /\ (WaitEnded(id) /\ ~(interrupted /\ id = query_id))
                   => /\ Cardinality(ticks) = PendingServed(id)
                      /\ Cardinality(sleeps) = PendingServed(id)

\* a wait that saw two non-terminal states has returned
C16_Witness ==
    \E r \in 1..Len(reports) :
        /\ PendingServed(reports[r].id) = 2
        /\ Cardinality(WaitEvents("tick", reports[r].id)) = 2

\* C17: in sequential mode the listed objects are read and decoded one at a
\* time in the order of the listing, the k-th tick comes after the k-th
\* decode and before the next one, and a fetch of n objects that returns
\* has emitted exactly n ticks.
C17_SequentialDecodeThenTick ==
    fetch.mode = "sequential" =>
        LET l == CHOOSE i \in At("list") : TRUE
        IN  /\ Cardinality(At("list")) = 1
            /\ fetch.paths = ListPaths(store, query_path)
            /\ \A i \in (l + 1)..Len(trace) :
                   LET k == (i - l + 1) \div 2
                   IN  /\ trace[i].id = k
                       /\ k <= Len(fetch.paths)
                       /\ IF (i - l) % 2 = 1
                          THEN /\ trace[i].op = "get"
                               /\ trace[i].arg.bucket = fetch.paths[k].bucket
                               /\ trace[i].arg.key = fetch.paths[k].prefix
                          ELSE trace[i].op = "tick"
            /\ bars[Len(bars)].progress = (Len(trace) - l) \div 2
            /\ (pc = "done" /\ outcome.kind = "return")
                   => /\ Len(trace) - l = 2 * Len(fetch.paths)
                      /\ bars[Len(bars)].progress = Len(fetch.paths)

\* a sequential fetch of two objects has returned after two ticks
C17_Witness ==
    /\ fetch.mode = "sequential"
    /\ pc = "done"
    /\ outcome.kind = "return"
    /\ Len(fetch.paths) = 2
    /\ bars[Len(bars)].progress = 2

\* C18: in pool mode the fetch does not end, with a table or with an error,
\* while a job it has queued is still waiting or running: when it ends every
\* listed object has been read, also when the read of another one failed.
C18_PoolReturnsAfterAllJobs ==
    (fetch.mode = "pool" /\ pc = "done")
        => /\ fetch.pending = <<>>
           /\ fetch.running = {}
           /\ \A j \in 1..Len(fetch.paths) : Count("get", j) = 1
           /\ outcome.kind \in {"return", "raise"}
           /\ (outcome.kind = "raise") = (fetch.failed # <<>>)

\* a fetch of two objects in pool mode has ended with the error of the
\* first object, the second one read as well
C18_Witness ==
    /\ fetch.mode = "pool"
    /\ pc = "done"
    /\ Len(fetch.paths) = 2
    /\ fetch.failed = <<1>>
    /\ Count("get", 2) = 1
    /\ trace[Len(trace)].id = 2

\* positions of the calling thread inside the with block of a bar
ScopePcs(scope) ==
    IF scope = "wait" THEN WaitPcs \cup {"except"}
    ELSE {"read_orc", "seq_next", "seq_tick", "pool_wait"}

\* the with block of the i-th bar has not been left
Entered(i) == i = Len(bars) /\ pc \in ScopePcs(bars[i].scope)

\* C19: a bar is finalized exactly once, when its with block is left, on
\* every way out, and it is not ticked afterwards; it shows complete when
\* the block was left without an exception and error otherwise: the bar of
\* a wait shows complete exactly when the wait returned on SUCCEEDED, and
\* error on FAILED, on CANCELLED, on a service error and on an interrupt.
C19_BarFinalizedOnce ==
    /\ [](\A i \in 1..Len(bars) :
             /\ Entered(i) => bars[i].final = <<>>
             /\ ~Entered(i)
                    => /\ Len(bars[i].final) = 1
                       /\ bars[i].final[1] \in {"complete", "error"}
                       /\ bars[i].scope = "wait"
                              => /\ i <= Len(execs)
                                 /\ (bars[i].final[1] = "complete")
                                        = (/\ ReportedTerminal(i)
                                           /\ LastServed(i).State = "SUCCEEDED")
                                 /\ (bars[i].final[1] = "complete")
                                        = (\E r \in 1..Len(reports) : reports[r].id = i)
                       /\ bars[i].scope = "read_orc"
                              => (bars[i].final[1] = "complete") = (outcome.kind = "return"))
    /\ [][\A i \in 1..Len(bars) : bars[i].final # <<>> => bars'[i] = bars[i]]_vars

\* the bar of a wait that ended on FAILED after one tick shows error
C19_Witness ==
    /\ pc = "done"
    /\ bars # <<>>
    /\ bars[Len(bars)] = [scope |-> "wait", progress |-> 1, final |-> <<"error">>]
    /\ LastServed(Len(execs)).State = "FAILED"

\* C20: once an interrupt has been handled in a wait of query or of
\* create_table, the wait for DROP TABLE included, the call does nothing
\* more than the one cancel request: no statement is submitted, nothing is
\* deleted, listed or read, no status is asked for, and nothing is returned.
C20_NothingAfterInterrupt ==
    interrupted =>
        LET i     == CHOOSE k \in At("KeyboardInterrupt") : TRUE
            later == {j \in 1..Len(trace) : j > i}
        IN  /\ \A j \in later : trace[j].op = "stop_query_execution"
            /\ Cardinality(later) = (IF pc = "done" THEN 1 ELSE 0)
            /\ \A j \in At("start_query_execution") \cup At("get_query_execution")
                          \cup At("delete") \cup At("list") \cup At("get") : j < i
            /\ outcome.kind \in {"running", "exit"}
            /\ \A r \in 1..Len(reports) : reports[r].id # query_id
            /\ execs[query_id].stmt.kind = "DROP"
                   => /\ At("delete") = {}
                      /\ Submits("CTAS") = {}
                      /\ Len(execs) = 1
            /\ call.op = "query"
                   => /\ At("list") \cup At("get") = {}
                      /\ Len(bars) = Len(execs)
                      /\ fetch = NoFetch

\* the wait for the DROP TABLE of an overwrite was interrupted and the call
\* has ended: the objects at the location are still there
C20_Witness ==
    /\ interrupted
    /\ pc = "done"
    /\ execs[query_id].stmt.kind = "DROP"
    /\ store # <<>>
    /\ Count("stop_query_execution", 1) = 1

\* the object is stored at the location: its key is the prefix of the
\* location followed by a slash and a file name
StoredAt(o, loc) ==
    o.bucket = loc.bucket /\ StartsWith(o.key, loc.prefix \o <<SLASH>>)

\* C21: the delete of an overwrite leaves every object unchanged that is not
\* stored at the location of the target table, also the objects of a table
\* whose name begins with the name of the target table; the listing of a
\* fetch holds only objects stored at the location of the target table.
C21_OnlyTargetLocationTouched ==
    /\ [](\A i \in 1..Len(fetch.paths) :
             StoredAt([bucket |-> fetch.paths[i].bucket, key |-> fetch.paths[i].prefix],
                      query_path))
    /\ [][(pc = "delete" /\ pc' = "create")
              => \A k \in 1..Len(store) :
                     ~StoredAt(store[k], query_path)
                         => \E m \in 1..Len(store') : store'[m] = store[k]]_vars

====
